---- MODULE Spec2Model ----
(***************************************************************************)
(* Model of the alpha-earth client library:                                *)
(*   - src/src/utils.py       merge_tif_directory, merge_tif_files         *)
(*   - src/src/downloader.py  AlphaEarthDownloader._download_image         *)
(*   - src/src/utils.py       quantize_numpy, quantize_ee,                 *)
(*                            dequantize_numpy, dequantize_ee              *)
(*   - src/src/earthengine.py EarthEngine.__init__                         *)
(*                                                                         *)
(* A file name is a sequence of tokens: a token is either the dot "." or a *)
(* non-empty dot-free piece of text, so <<"a", ".", "tif">> is "a.tif".    *)
(* A path is a sequence of names below the working root; the root itself   *)
(* is the empty path and always a directory.                               *)
(***************************************************************************)
EXTENDS Integers, Sequences, FiniteSets, TLC

VARIABLES
    fs,         \* the file system: existing path |-> "dir" or a file content
    fs0,        \* the file system when the call was made
    pc,         \* position of the merge call
    call,       \* arguments of the running call (after Path() conversion)
    srcs,       \* rasterio datasets opened by line 94: [path, open]
    wrote,      \* dst.write(merged) has returned
    k,          \* index of the next input the loop of line 116 unlinks
    err,        \* message of the raised error, "" when none
    dpc,        \* position of the _download_image call
    dcall,      \* arguments of the _download_image call
    count,      \* filtered.size().getInfo()
    tile,       \* loop variable i of _download_image
    info,       \* info["files"]
    outcomes,   \* what the export of each attempted tile did
    queries,    \* number of remote getInfo() requests issued so far
    dirMade,    \* output_dir.mkdir(...) has run
    derr,       \* error raised by _download_image, "" when none
    cin,        \* the input of the codec run: a float (with a second one) or a byte
    npq,        \* result of quantize_numpy, <<>> before it has run
    npq2,       \* result of quantize_numpy on the second float
    npd,        \* result of dequantize_numpy
    eeq,        \* result of quantize_ee
    eed,         \* result of dequantize_ee
    rin,        \* the tiles of the input files of a run of lines 94-108
    rpc,        \* position of that run
    rsrcs,      \* the datasets opened by line 94
    rmerged,    \* merged and out_trans of line 95, <<>> before
    rprofile,   \* profile of lines 97-104, <<>> before
    rdst,       \* the written output file, <<>> before
    apc,        \* position of the EarthEngine constructor
    acall,      \* arguments of the constructor call
    alog,       \* the ee.Initialize and ee.Authenticate calls made, with results
    aexc        \* the error in flight or raised, <<>> when none

mvars == <<fs, fs0, pc, call, srcs, wrote, k, err>>
dvars == <<dpc, dcall, count, tile, info, outcomes, queries, dirMade, derr>>
cvars == <<cin, npq, npq2, npd, eeq, eed>>
rvars == <<rin, rpc, rsrcs, rmerged, rprofile, rdst>>
avars == <<apc, acall, alog, aexc>>
vars == <<fs, fs0, pc, call, srcs, wrote, k, err,
          dpc, dcall, count, tile, info, outcomes, queries, dirMade, derr,
          cin, npq, npq2, npd, eeq, eed,
          rin, rpc, rsrcs, rmerged, rprofile, rdst,
          apc, acall, alog, aexc>>

\* what the steps of one component leave alone
nonMerge == <<dvars, cvars, rvars, avars>>
nonDownload == <<mvars, cvars, rvars, avars>>
nonCodec == <<mvars, dvars, rvars, avars>>
nonRaster == <<mvars, dvars, cvars, avars>>
nonAuth == <<mvars, dvars, cvars, rvars>>

-----------------------------------------------------------------------------
(* Bounds *)

MaxNameLen == 3
MaxFiles == 2
MaxCount == 3
MaxLevel == 129
Near == 1
MaxFar == 2
MaxStep == 2
MaxTiles == 2
MaxExtent == 2

-----------------------------------------------------------------------------
(* pathlib *)

Dot == "."
TifSuffix == <<Dot, "tif">>

SeqsUpTo(n, S) == UNION {[1..len -> S] : len \in 0..n}

Range(s) == {s[i] : i \in DOMAIN s}

\* index of the last "." of a name, 0 when there is none (str.rfind)
RFindDot(name) ==
    LET dots == {i \in DOMAIN name : name[i] = Dot}
    IN IF dots = {} THEN 0 ELSE CHOOSE i \in dots : \A j \in dots : j <= i

\* PurePath.suffix: the part from the last dot, unless that dot is the
\* first or the last character of the name
Suffix(name) ==
    LET i == RFindDot(name)
    IN IF 1 < i /\ i < Len(name) THEN SubSeq(name, i, Len(name)) ELSE <<>>

\* PurePath.with_suffix on the final component
WithSuffixName(name, suffix) ==
    IF Suffix(name) = <<>>
    THEN name \o suffix
    ELSE SubSeq(name, 1, Len(name) - Len(Suffix(name))) \o suffix

WithSuffix(path, suffix) ==
    SubSeq(path, 1, Len(path) - 1) \o <<WithSuffixName(path[Len(path)], suffix)>>

Parent(path) == SubSeq(path, 1, Len(path) - 1)

IsPrefix(d, p) == Len(d) <= Len(p) /\ SubSeq(p, 1, Len(d)) = d

Exists(f, p) == p \in DOMAIN f
IsDir(f, p) == p = <<>> \/ (p \in DOMAIN f /\ f[p] = "dir")
IsFile(f, p) == p \in DOMAIN f /\ f[p] # "dir"

\* fnmatch of a name against "*.tif"
MatchesTif(name) ==
    Len(name) >= 2 /\ SubSeq(name, Len(name) - 1, Len(name)) = TifSuffix

\* Path.glob("*.tif"): the entries directly inside d whose name matches
Glob(f, d) ==
    {p \in DOMAIN f : Len(p) = Len(d) + 1 /\ Parent(p) = d /\ MatchesTif(p[Len(p)])}

\* the orders in which a directory listing can come back
Listings(S) ==
    {s \in [1..Cardinality(S) -> S] : \A i, j \in DOMAIN s : s[i] = s[j] => i = j}

\* the file system with path p created or overwritten / with the paths of S gone
Put(f, p, content) ==
    [q \in DOMAIN f \cup {p} |-> IF q = p THEN content ELSE f[q]]

Without(f, S) == [q \in DOMAIN f \ S |-> f[q]]

-----------------------------------------------------------------------------
(* The files the model's calls are made on *)

TileA == <<"a", Dot, "tif">>
TileB == <<"b", Dot, "tif">>
Notes == <<"c", Dot, "txt">>
SubDir == <<"sub">>
SubTile == <<"x", Dot, "tif">>
Missing == <<"z", Dot, "tif">>
OutInside == <<"m", Dot, "tif">>
OutOutside == <<<<"o", Dot, "tif">>>>
MissingDir == <<<<"nodir">>>>
NoOutput == <<>>

\* directory names: no trailing dot and no leading "..", where the suffix
\* rule differs between Python versions
DirNames ==
    {n \in SeqsUpTo(MaxNameLen, {"d", Dot}) :
        /\ Len(n) >= 1
        /\ n[Len(n)] # Dot
        /\ ~(Len(n) >= 2 /\ n[1] = Dot /\ n[2] = Dot)}

InitFs(n, kind, a, b, c, s) ==
    LET d == <<n>>
        inside ==
            (IF a THEN {<<d \o <<TileA>>, "tile">>} ELSE {})
            \cup (IF b # "absent" THEN {<<d \o <<TileB>>, b>>} ELSE {})
            \cup (IF c THEN {<<d \o <<Notes>>, "other">>} ELSE {})
            \cup (IF s THEN {<<d \o <<SubDir>>, "dir">>,
                             <<d \o <<SubDir, SubTile>>, "tile">>} ELSE {})
        pairs == {<<d, kind>>} \cup (IF kind = "dir" THEN inside ELSE {})
    IN [p \in {q[1] : q \in pairs} |-> (CHOOSE q \in pairs : q[1] = p)[2]]

RootEntries(f) == {p \in DOMAIN f : Len(p) = 1}

Candidates(d) == {d \o <<TileA>>, d \o <<TileB>>, d \o <<Notes>>, d \o <<Missing>>}

NoCall ==
    [op |-> "none", input_dir |-> <<>>, files |-> <<>>, output_path |-> <<>>,
     output_given |-> FALSE, delete_after |-> FALSE]

\* the state before a merge call is made on the file system f
MergeStart(f) ==
    /\ fs = f
    /\ fs0 = f
    /\ pc = "idle"
    /\ call = NoCall
    /\ srcs = <<>>
    /\ wrote = FALSE
    /\ k = 1
    /\ err = ""

-----------------------------------------------------------------------------
(* utils.py: merge_tif_files and merge_tif_directory *)

DirMsg == "Input directory must exist."
AllMsg == "All files must exist and be .tif files."
NoFilesMsg == "No files to merge."

\* the condition asserted for each file on lines 88-90
ValidInput(f, file) ==
    IsFile(f, file) /\ Suffix(file[Len(file)]) = TifSuffix /\ Exists(f, file)

\* ValidationError without the per-file assertion of lines 88-90
ValidationErrorNoFileCheck(f, files) ==
    IF Len(files) = 0 THEN NoFilesMsg ELSE ""

\* ValidationError without the emptiness assertion of line 91
ValidationErrorNoEmptyCheck(f, files) ==
    IF \E i \in DOMAIN files : ~ValidInput(f, files[i]) THEN AllMsg ELSE ""

\* lines 87-91: the message of the assertion that fails, "" when both pass
ValidationError(f, files) ==
    IF \E i \in DOMAIN files : ~ValidInput(f, files[i]) THEN AllMsg
    ELSE IF Len(files) = 0 THEN NoFilesMsg
    ELSE ""

\* where control goes when merge_tif_files returns normally
AfterMergeTifFiles ==
    IF call.op = "directory" /\ call.delete_after THEN "rmtree" ELSE "done"

Raise(msg) == pc' = "raised" /\ err' = msg

\* lines 72-91: entry of merge_tif_files up to the two assertions
EnterMergeTifFiles(c) ==
    /\ call' = c
    /\ fs0' = fs
    /\ IF ValidationError(fs, c.files) # ""
       THEN Raise(ValidationError(fs, c.files))
       ELSE pc' = "open" /\ err' = ""
    /\ UNCHANGED <<fs, srcs, wrote, k>>

MergeTifFiles ==
    /\ UNCHANGED nonMerge
    /\ pc = "idle"
    /\ \E d \in RootEntries(fs) :
       \E files \in SeqsUpTo(MaxFiles, Candidates(d)),
          out \in {OutOutside, d \o <<OutInside>>, d \o <<TileA>>},
          del \in BOOLEAN :
            EnterMergeTifFiles([op |-> "files", input_dir |-> <<>>, files |-> files,
                                output_path |-> out, output_given |-> TRUE,
                                delete_after |-> del])

\* lines 61-62: the output path merge_tif_directory hands to merge_tif_files
DefaultOutput(input_dir, output_path) ==
    IF output_path = NoOutput THEN WithSuffix(input_dir, TifSuffix) ELSE output_path

\* lines 57-65: merge_tif_directory up to and into its call of merge_tif_files
MergeTifDirectory ==
    /\ UNCHANGED nonMerge
    /\ pc = "idle"
    /\ \E input_dir \in RootEntries(fs) \cup {MissingDir}, del \in BOOLEAN :
       \E output_path \in {NoOutput, OutOutside, input_dir \o <<OutInside>>,
                           input_dir \o <<TileA>>} :
          IF ~IsDir(fs, input_dir)
          THEN /\ Raise(DirMsg)
               /\ call' = [op |-> "directory", input_dir |-> input_dir,
                           files |-> <<>>, output_path |-> output_path,
                           output_given |-> output_path # NoOutput,
                           delete_after |-> del]
               /\ fs0' = fs
               /\ UNCHANGED <<fs, srcs, wrote, k>>
          ELSE \E files \in Listings(Glob(fs, input_dir)) :
                 EnterMergeTifFiles(
                     [op |-> "directory", input_dir |-> input_dir, files |-> files,
                      output_path |-> DefaultOutput(input_dir, output_path),
                      output_given |-> output_path # NoOutput,
                      delete_after |-> del])

\* line 94: open the next input; rasterio.open may raise
OpenSrc ==
    /\ UNCHANGED nonMerge
    /\ pc = "open"
    /\ \/ /\ srcs' = Append(srcs, [path |-> call.files[Len(srcs) + 1], open |-> TRUE])
          /\ pc' = IF Len(srcs) + 1 = Len(call.files) THEN "merge" ELSE "open"
          /\ UNCHANGED err
       \/ Raise("open") /\ UNCHANGED srcs
    /\ UNCHANGED <<fs, fs0, call, wrote, k>>

\* lines 95-104: compute the mosaic and the profile; merge may raise
Mosaic ==
    /\ UNCHANGED nonMerge
    /\ pc = "merge"
    /\ \/ pc' = "create" /\ UNCHANGED err
       \/ Raise("merge")
    /\ UNCHANGED <<fs, fs0, call, srcs, wrote, k>>

\* CreateDst leaving an empty output behind when the open fails
CreateDstLeavesFile ==
    /\ UNCHANGED nonMerge
    /\ pc = "create"
    /\ \/ /\ IsDir(fs, Parent(call.output_path))
          /\ ~IsDir(fs, call.output_path)
          /\ fs' = Put(fs, call.output_path, "partial")
          /\ pc' = "write"
          /\ UNCHANGED err
       \/ /\ Raise("create")
          /\ fs' = IF IsDir(fs, Parent(call.output_path)) /\ ~IsDir(fs, call.output_path)
                   THEN Put(fs, call.output_path, "partial") ELSE fs
    /\ UNCHANGED <<fs0, call, srcs, wrote, k>>

\* line 107: rasterio.open(output_path, "w") creates or truncates the output
CreateDst ==
    /\ UNCHANGED nonMerge
    /\ pc = "create"
    /\ \/ /\ IsDir(fs, Parent(call.output_path))
          /\ ~IsDir(fs, call.output_path)
          /\ fs' = Put(fs, call.output_path, "partial")
          /\ pc' = "write"
          /\ UNCHANGED err
       \/ Raise("create") /\ UNCHANGED fs
    /\ UNCHANGED <<fs0, call, srcs, wrote, k>>

\* WriteDst with the write error swallowed: the call goes on to close and delete
WriteDstSwallowsError ==
    /\ UNCHANGED nonMerge
    /\ pc = "write"
    /\ \/ /\ fs' = Put(fs, call.output_path, "merged")
          /\ wrote' = TRUE
       \/ UNCHANGED <<fs, wrote>>
    /\ pc' = "close"
    /\ UNCHANGED <<fs0, call, srcs, k, err>>

\* line 108 and the exit of the with block: write the mosaic, close dst
WriteDst ==
    /\ UNCHANGED nonMerge
    /\ pc = "write"
    /\ \/ /\ fs' = Put(fs, call.output_path, "merged")
          /\ wrote' = TRUE
          /\ pc' = "close"
          /\ UNCHANGED err
       \/ Raise("write") /\ UNCHANGED <<fs, wrote>>
    /\ UNCHANGED <<fs0, call, srcs, k>>

\* the first dataset of srcs that is still open
FirstOpen == CHOOSE i \in DOMAIN srcs : srcs[i].open /\ \A j \in 1..(i - 1) : ~srcs[j].open

\* variant: the datasets are left open when the inputs are to be deleted
CloseSrcSkippedBeforeDelete ==
    /\ UNCHANGED nonMerge
    /\ pc = "close"
    /\ srcs' = IF call.delete_after THEN srcs
               ELSE [srcs EXCEPT ![FirstOpen].open = FALSE]
    /\ pc' = IF call.delete_after THEN "unlink"
             ELSE IF FirstOpen < Len(srcs) THEN "close"
             ELSE AfterMergeTifFiles
    /\ UNCHANGED <<fs, fs0, call, wrote, k, err>>

\* lines 111-112: close the next dataset
CloseSrc ==
    /\ UNCHANGED nonMerge
    /\ pc = "close"
    /\ srcs' = [srcs EXCEPT ![FirstOpen].open = FALSE]
    /\ pc' = IF FirstOpen < Len(srcs) THEN "close"
             ELSE IF call.delete_after THEN "unlink"
             ELSE AfterMergeTifFiles
    /\ UNCHANGED <<fs, fs0, call, wrote, k, err>>

\* lines 115-117: unlink the next input; a missing file raises
Unlink ==
    /\ UNCHANGED nonMerge
    /\ pc = "unlink"
    /\ \/ /\ Exists(fs, call.files[k])
          /\ fs' = Without(fs, {call.files[k]})
          /\ k' = k + 1
          /\ pc' = IF k = Len(call.files) THEN AfterMergeTifFiles ELSE "unlink"
          /\ UNCHANGED err
       \/ Raise("unlink") /\ UNCHANGED <<fs, k>>
    /\ UNCHANGED <<fs0, call, srcs, wrote>>

\* lines 68-69: shutil.rmtree(input_dir)
Rmtree ==
    /\ UNCHANGED nonMerge
    /\ pc = "rmtree"
    /\ fs' = Without(fs, {p \in DOMAIN fs : IsPrefix(call.input_dir, p)})
    /\ pc' = "done"
    /\ UNCHANGED <<fs0, call, srcs, wrote, k, err>>

MergeNext ==
    \/ MergeTifFiles
    \/ MergeTifDirectory
    \/ OpenSrc
    \/ Mosaic
    \/ CreateDst
    \/ WriteDst
    \/ CloseSrc
    \/ Unlink
    \/ Rmtree

-----------------------------------------------------------------------------
(* downloader.py: AlphaEarthDownloader._download_image *)

NoImagesMsg == "No images found for specified date range and location."
InvalidDtypeMsg == "Invalid dtype"

Dtypes == {"uint8", "float32", "uint16"}

NoDCall == [output_dir_none |-> FALSE, dtype |-> "float32"]

\* the state before a download call is made
DownloadStart ==
    /\ dpc = "idle"
    /\ dcall = NoDCall
    /\ count = 0
    /\ tile = 0
    /\ info = <<>>
    /\ outcomes = <<>>
    /\ queries = 0
    /\ dirMade = FALSE
    /\ derr = ""

DRaise(msg) == dpc' = "raised" /\ derr' = msg

\* lines 463-485, _convert_dtype: the error it raises, "" when it returns
ConvertDtype(dtype) ==
    IF dtype = "uint8" THEN ""
    ELSE IF dtype = "float32" THEN ""
    ELSE InvalidDtypeMsg

\* lines 340-367, _prepare_image: clip is lazy, only _convert_dtype can raise
PrepareImage(dtype) == ConvertDtype(dtype)

\* lines 369-389, _get_bounds: what the two getInfo() requests can do
BoundsOutcomes == {"ok", "retry_ok", "fail"}
BoundsQueries(o) == IF o = "ok" THEN 1 ELSE 2

\* lines 419-461, _download_from_url: the record returned for an export that
\* returned ("ok") or raised an Exception ("exception")
DownloadFromUrl(outcome, path) ==
    IF outcome = "ok"
    THEN [success |-> TRUE, output_path |-> path]
    ELSE [success |-> FALSE, error |-> "export failed"]

\* what geemap.ee_export_image can do: return, raise an Exception, or raise a
\* BaseException that `except Exception` lets through (KeyboardInterrupt)
ExportOutcomes == {"ok", "exception", "interrupt"}

\* download_by_region / download_by_latlon / download_by_utm: lines 79-94,
\* 142-154, 208-238 build the geometry lazily and call _download_image
DownloadCall ==
    /\ UNCHANGED nonDownload
    /\ dpc = "idle"
    /\ \E none \in BOOLEAN, dtype \in Dtypes :
          dcall' = [output_dir_none |-> none, dtype |-> dtype]
    /\ dpc' = "size"
    /\ UNCHANGED <<count, tile, info, outcomes, queries, dirMade, derr>>

\* lines 282-298: the size request, band selection and the output_dir=None exit
Size ==
    /\ UNCHANGED nonDownload
    /\ dpc = "size"
    /\ queries' = queries + 1
    /\ \/ DRaise("remote") /\ UNCHANGED count
       \/ \E c \in 0..MaxCount :
            /\ count' = c
            /\ IF c = 0 THEN DRaise(NoImagesMsg)
               ELSE IF dcall.output_dir_none
               THEN IF PrepareImage(dcall.dtype) # ""
                    THEN DRaise(PrepareImage(dcall.dtype))
                    ELSE dpc' = "returned" /\ UNCHANGED derr
               ELSE dpc' = "bounds" /\ UNCHANGED derr
    /\ UNCHANGED <<dcall, tile, info, outcomes, dirMade>>

\* lines 300-313: bounds of the requested geometry
Bounds ==
    /\ UNCHANGED nonDownload
    /\ dpc = "bounds"
    /\ \E o \in BoundsOutcomes :
          /\ queries' = queries + BoundsQueries(o)
          /\ IF o = "fail" THEN DRaise("remote")
             ELSE dpc' = "mkdir" /\ UNCHANGED derr
    /\ UNCHANGED <<dcall, count, tile, info, outcomes, dirMade>>

\* lines 315-321: create the output directory
Mkdir ==
    /\ UNCHANGED nonDownload
    /\ dpc = "mkdir"
    /\ \/ dirMade' = TRUE /\ dpc' = "tile" /\ UNCHANGED derr
       \/ DRaise("mkdir") /\ UNCHANGED dirMade
    /\ UNCHANGED <<dcall, count, tile, info, outcomes, queries>>

\* lines 322-327: prepare tile i
PrepareTile ==
    /\ UNCHANGED nonDownload
    /\ dpc = "tile"
    /\ IF PrepareImage(dcall.dtype) # ""
       THEN DRaise(PrepareImage(dcall.dtype))
       ELSE dpc' = "tile_bounds" /\ UNCHANGED derr
    /\ UNCHANGED <<dcall, count, tile, info, outcomes, queries, dirMade>>

\* lines 329-331: bounds of tile i, from which its file name is made
TileBounds ==
    /\ UNCHANGED nonDownload
    /\ dpc = "tile_bounds"
    /\ \E o \in BoundsOutcomes :
          /\ queries' = queries + BoundsQueries(o)
          /\ IF o = "fail" THEN DRaise("remote")
             ELSE dpc' = "export" /\ UNCHANGED derr
    /\ UNCHANGED <<dcall, count, tile, info, outcomes, dirMade>>

\* ExportStep with the try/except of _download_from_url missing: an export
\* error ends the loop
ExportStepPropagates(o) ==
    /\ outcomes' = Append(outcomes, o)
    /\ IF o # "ok"
       THEN DRaise(o) /\ UNCHANGED <<info, tile>>
       ELSE /\ info' = Append(info, DownloadFromUrl(o, tile))
            /\ tile' = tile + 1
            /\ dpc' = IF tile + 1 = count THEN "returned" ELSE "tile"
            /\ UNCHANGED derr

\* how the loop goes on after the export of a tile did o
ExportStep(o) ==
    /\ outcomes' = Append(outcomes, o)
    /\ IF o = "interrupt"
       THEN DRaise("interrupt") /\ UNCHANGED <<info, tile>>
       ELSE /\ info' = Append(info, DownloadFromUrl(o, tile))
            /\ tile' = tile + 1
            /\ dpc' = IF tile + 1 = count THEN "returned" ELSE "tile"
            /\ UNCHANGED derr

\* lines 333-338: export tile i and append its record
Export ==
    /\ UNCHANGED nonDownload
    /\ dpc = "export"
    /\ \E o \in ExportOutcomes : ExportStep(o)
    /\ UNCHANGED <<dcall, count, queries, dirMade>>

DownloadNext ==
    \/ DownloadCall
    \/ Size
    \/ Bounds
    \/ Mkdir
    \/ PrepareTile
    \/ TileBounds
    \/ Export

-----------------------------------------------------------------------------
(* utils.py: the quantization codec                                        *)
(*                                                                         *)
(* Floats are modelled by exact values.  A rational is [num, den].  The    *)
(* result of the square root is a "root" [sign, num, den, eps, off]: the   *)
(* value off + sign * (sqrt(num / den) + eps * h) for an infinitesimal     *)
(* h > 0.  eps is the direction of the floating-point rounding error of    *)
(* the computed root and product; it decides the byte only when the exact  *)
(* value sits on a boundary between two bytes.                             *)

\* 2 * 127.5, the scale of lines 125, 134, 142 and 151 as an integer
TwiceScale == 255

\* the denominator of the grid of floats: (2 * 127.5)^2
Den == TwiceScale * TwiceScale

Abs(i) == IF i < 0 THEN -i ELSE i
Sgn(i) == IF i > 0 THEN 1 ELSE IF i < 0 THEN -1 ELSE 0

RECURSIVE IsqrtBetween(_, _, _)
IsqrtBetween(n, lo, hi) ==
    IF lo >= hi THEN lo
    ELSE LET mid == (lo + hi + 1) \div 2
         IN IF mid * mid <= n THEN IsqrtBetween(n, mid, hi)
            ELSE IsqrtBetween(n, lo, mid - 1)

\* the integer square root of n >= 0
Isqrt(n) == IsqrtBetween(n, 0, IF n < 46340 THEN n ELSE 46340)

\* floor and ceiling of the magnitude sqrt(num / den) + eps * h of a root
FloorMag(r) ==
    LET w == Isqrt(r.num \div r.den)
    IN IF w * w * r.den = r.num /\ r.eps < 0 /\ w > 0 THEN w - 1 ELSE w

CeilMag(r) ==
    LET w == Isqrt(r.num \div r.den)
    IN IF w * w * r.den = r.num
       THEN (IF r.eps > 0 THEN w + 1 ELSE w)
       ELSE w + 1

\* floor, ceiling and truncation towards zero of the value of a root
FloorRoot(r) ==
    IF r.sign > 0 THEN r.off + FloorMag(r)
    ELSE IF r.sign < 0 THEN r.off - CeilMag(r)
    ELSE r.off

CeilRoot(r) ==
    IF r.sign > 0 THEN r.off + CeilMag(r)
    ELSE IF r.sign < 0 THEN r.off - FloorMag(r)
    ELSE r.off

TruncRoot(r) == IF FloorRoot(r) >= 0 THEN FloorRoot(r) ELSE CeilRoot(r)

\* a root holding exactly the integer c
ExactRoot(c, den) ==
    [sign |-> Sgn(c), num |-> c * c * den, den |-> den, eps |-> 0, off |-> 0]

\* the root r (with off = 0) is above / below the integer c
RootAbove(r, c) ==
    IF c >= 0
    THEN r.sign > 0 /\ (r.num > c * c * r.den \/ (r.num = c * c * r.den /\ r.eps > 0))
    ELSE r.sign >= 0 \/ r.num < c * c * r.den \/ (r.num = c * c * r.den /\ r.eps < 0)

RootBelow(r, c) ==
    IF c <= 0
    THEN r.sign < 0 /\ (r.num > c * c * r.den \/ (r.num = c * c * r.den /\ r.eps > 0))
    ELSE r.sign <= 0 \/ r.num < c * c * r.den \/ (r.num = c * c * r.den /\ r.eps < 0)

(* numpy, as used by quantize_numpy (lines 124-125) *)

\* np.abs(image)
NpAbs(x) == [num |-> Abs(x.num), den |-> x.den]

\* ** (1 / 2.0); the root of 0 is exactly 0
NpPowHalf(a, e) ==
    [sign |-> Sgn(a.num), num |-> a.num, den |-> a.den,
     eps |-> IF a.num = 0 THEN 0 ELSE e, off |-> 0]

\* np.sign(image)
NpSign(x) == Sgn(x.num)

\* variant: the sign of the input is lost
NpMulSignDropped(r, s) == r

\* root * np.sign(image)
NpMulSign(r, s) == [r EXCEPT !.sign = r.sign * s]

\* image * 127.5: sqrt(num / den) * 255 / 2 = sqrt(num / (4 * den / 255^2))
NpMulScale(r) == [r EXCEPT !.den = (4 * r.den) \div Den]

\* variant: the clip is one level too narrow
NpClipNarrow(r, lo, hi) ==
    IF RootAbove(r, hi - 1) THEN ExactRoot(hi - 1, r.den)
    ELSE IF RootBelow(r, lo + 1) THEN ExactRoot(lo + 1, r.den)
    ELSE r

\* variant: no clip
NpClipNone(r, lo, hi) == r

\* np.clip(image, lo, hi): a value outside is replaced by the exact bound
NpClip(r, lo, hi) ==
    IF RootAbove(r, hi) THEN ExactRoot(hi, r.den)
    ELSE IF RootBelow(r, lo) THEN ExactRoot(lo, r.den)
    ELSE r

\* variant: the offset is one too large
NpAddOneMore(r, c) == [r EXCEPT !.off = r.off + c + 1]

\* image + 128
NpAdd(r, c) == [r EXCEPT !.off = r.off + c]

\* variant: the cast rounds two levels down
NpAstypeUint8Low(r) == (FloorRoot(r) - 2) % 256

\* .astype(np.uint8): truncation towards zero, then the low 8 bits
NpAstypeUint8(r) == TruncRoot(r) % 256

(* numpy, as used by dequantize_numpy (lines 142-143) *)

\* image.astype(np.float32)
NpAstypeFloat32(b) == [num |-> b, den |-> 1]

\* image - 128
NpSub(x, c) == [num |-> x.num - c * x.den, den |-> x.den]

\* image / 127.5
NpDivScale(x) == [num |-> 2 * x.num, den |-> TwiceScale * x.den]

\* np.abs(image) ** 2.0
NpPowTwo(a) == [num |-> a.num * a.num, den |-> a.den * a.den]

\* square * np.sign(image)
NpMulSignRat(a, s) == [num |-> a.num * s, den |-> a.den]

(* Earth Engine image operations, as used by quantize_ee (lines 133-134)   *)
(* and dequantize_ee (lines 151-152)                                       *)

\* image.abs()
EeAbs(x) == [num |-> IF x.num >= 0 THEN x.num ELSE 0 - x.num, den |-> x.den]

\* .pow(1 / 2.0)
EePowHalf(a, e) ==
    [sign |-> IF a.num = 0 THEN 0 ELSE 1, num |-> a.num, den |-> a.den,
     eps |-> IF a.num = 0 THEN 0 ELSE e, off |-> 0]

\* image.signum()
EeSignum(x) == IF x.num < 0 THEN -1 ELSE IF x.num = 0 THEN 0 ELSE 1

\* .multiply(image.signum())
EeMultiplySign(r, s) == [r EXCEPT !.sign = s * r.sign]

\* .multiply(127.5)
EeMultiplyScale(r) == [r EXCEPT !.den = (4 * r.den) \div Den]

\* .clamp(lo, hi)
EeClamp(r, lo, hi) ==
    IF RootBelow(r, lo) THEN ExactRoot(lo, r.den)
    ELSE IF RootAbove(r, hi) THEN ExactRoot(hi, r.den)
    ELSE r

\* .add(128)
EeAdd(r, c) == [r EXCEPT !.off = c + r.off]

\* variant: the cast rounds up
EeUint8Ceil(r) ==
    LET t == CeilRoot(r)
    IN IF t < 0 THEN 0 ELSE IF t > 255 THEN 255 ELSE t

\* .uint8(): truncation towards zero, saturating at the ends of the type
EeUint8(r) ==
    LET t == TruncRoot(r)
    IN IF t < 0 THEN 0 ELSE IF t > 255 THEN 255 ELSE t

\* image.float()
EeFloat(b) == [num |-> b, den |-> 1]

\* .subtract(128)
EeSubtract(x, c) == [num |-> x.num - c * x.den, den |-> x.den]

\* .divide(127.5)
EeDivideScale(x) == [num |-> x.num * 2, den |-> x.den * TwiceScale]

\* image.abs().pow(2.0)
EePowTwo(a) == [num |-> a.num * a.num, den |-> a.den * a.den]

\* .multiply(image.signum())
EeMultiplySignRat(a, s) == [num |-> s * a.num, den |-> a.den]

(* the four functions: a float is its numerator over Den *)

\* lines 120-126; e is the rounding direction of the floating-point result
quantize_numpy(n, e) ==
    LET image == [num |-> n, den |-> Den]
        image1 == NpMulSign(NpPowHalf(NpAbs(image), e), NpSign(image))
    IN NpAstypeUint8(NpAdd(NpClip(NpMulScale(image1), -127, 127), 128))

\* lines 129-135
quantize_ee(n, e) ==
    LET image == [num |-> n, den |-> Den]
        image1 == EeMultiplySign(EePowHalf(EeAbs(image), e), EeSignum(image))
    IN EeUint8(EeAdd(EeClamp(EeMultiplyScale(image1), -127, 127), 128))

\* lines 138-144; the result has the denominator Den
dequantize_numpy(b) ==
    LET image == NpDivScale(NpSub(NpAstypeFloat32(b), 128))
    IN NpMulSignRat(NpPowTwo(NpAbs(image)), NpSign(image)).num

\* lines 147-153
dequantize_ee(b) ==
    LET image == EeDivideScale(EeSubtract(EeFloat(b), 128))
    IN EeMultiplySignRat(EePowTwo(EeAbs(image)), EeSignum(image)).num

(* the inputs of the codec runs *)

\* the floats: every boundary between two bytes, 4 * v^2 / Den, with its
\* neighbours on the grid, up to beyond 1, and whole numbers beyond that
Floats ==
    {s * (4 * v * v + d) : s \in {-1, 1}, v \in 0..MaxLevel, d \in (0 - Near)..Near}
    \cup {s * f * Den : s \in {-1, 1}, f \in 1..MaxFar}

Bytes == 0..255
Roundings == {-1, 0, 1}

\* the state before a codec function is applied to the input c
CodecStart(c) ==
    /\ cin = c
    /\ npq = <<>>
    /\ npq2 = <<>>
    /\ npd = <<>>
    /\ eeq = <<>>
    /\ eed = <<>>

NoInput == [kind |-> "none"]

\* the inputs: a float x with a second float x2 >= x (equal floats round the
\* same way), or a byte b with the rounding of its re-quantization
CodecInputs ==
    {[kind |-> "float", x |-> x, eps |-> e, x2 |-> x + d, eps2 |-> e2] :
        x \in Floats, e \in Roundings, d \in 0..MaxStep, e2 \in Roundings}
    \cup {[kind |-> "byte", b |-> b, eps |-> e] : b \in Bytes, e \in Roundings}

\* quantize_numpy applied to the float input, or to the dequantized byte
QuantizeNumpy ==
    /\ UNCHANGED nonCodec
    /\ npq = <<>>
    /\ \/ /\ cin.kind = "float"
          /\ (cin.x = cin.x2 => cin.eps = cin.eps2)
          /\ npq' = <<quantize_numpy(cin.x, cin.eps)>>
          /\ npq2' = <<quantize_numpy(cin.x2, cin.eps2)>>
       \/ /\ cin.kind = "byte"
          /\ npd # <<>>
          /\ npq' = <<quantize_numpy(npd[1], cin.eps)>>
          /\ UNCHANGED npq2
    /\ UNCHANGED <<cin, npd, eeq, eed>>

\* dequantize_numpy applied to the byte input, or to the quantized float
DequantizeNumpy ==
    /\ UNCHANGED nonCodec
    /\ npd = <<>>
    /\ \/ /\ cin.kind = "byte"
          /\ npd' = <<dequantize_numpy(cin.b)>>
       \/ /\ cin.kind = "float"
          /\ npq # <<>>
          /\ npd' = <<dequantize_numpy(npq[1])>>
    /\ UNCHANGED <<cin, npq, npq2, eeq, eed>>

\* quantize_ee applied to the float input, or to the dequantized byte
QuantizeEe ==
    /\ UNCHANGED nonCodec
    /\ eeq = <<>>
    /\ \/ /\ cin.kind = "float"
          /\ (cin.x = cin.x2 => cin.eps = cin.eps2)
          /\ eeq' = <<quantize_ee(cin.x, cin.eps)>>
       \/ /\ cin.kind = "byte"
          /\ eed # <<>>
          /\ eeq' = <<quantize_ee(eed[1], cin.eps)>>
    /\ UNCHANGED <<cin, npq, npq2, npd, eed>>

\* dequantize_ee applied to the byte input, or to the quantized float
DequantizeEe ==
    /\ UNCHANGED nonCodec
    /\ eed = <<>>
    /\ \/ /\ cin.kind = "byte"
          /\ eed' = <<dequantize_ee(cin.b)>>
       \/ /\ cin.kind = "float"
          /\ eeq # <<>>
          /\ eed' = <<dequantize_ee(eeq[1])>>
    /\ UNCHANGED <<cin, npq, npq2, npd, eeq>>

CodecNext ==
    \/ QuantizeNumpy
    \/ DequantizeNumpy
    \/ QuantizeEe
    \/ DequantizeEe

-----------------------------------------------------------------------------
(* utils.py, merge_tif_files lines 94-108: the rasters                     *)
(*                                                                         *)
(* A dataset is a north-up raster: [left, top] its upper left corner in    *)
(* map units, res the size of a pixel, width and height in pixels, and     *)
(* data[<<band, row, col>>] its pixels.  nodata is <<>> (none) or <<v>>.   *)
(* All the tiles of one run have one resolution and sit on one pixel grid, *)
(* so the divisions by res below are exact.                                *)

MaxBands == 3
Resolution == 2

Min(S) == CHOOSE x \in S : \A y \in S : x <= y
Max(S) == CHOOSE x \in S : \A y \in S : x >= y

Right(ds) == ds.left + ds.width * ds.res
Bottom(ds) == ds.top - ds.height * ds.res

\* Affine(a, 0, c, 0, e, f) of a dataset
Transform(ds) == [a |-> ds.res, c |-> ds.left, e |-> 0 - ds.res, f |-> ds.top]

\* the profile of an open dataset (srcs[0].profile, line 97)
Profile(ds) ==
    [driver |-> "GTiff", dtype |-> ds.dtype, nodata |-> ds.nodata,
     width |-> ds.width, height |-> ds.height, count |-> ds.count,
     crs |-> ds.crs, transform |-> Transform(ds), compress |-> ds.compress]

Pixels(bands, height, width) == (1..bands) \X (1..height) \X (1..width)

\* the pixel of a tile: every pixel of a run has its own value above 0
PixelValue(i, p) ==
    ((i * MaxBands + p[1]) * MaxExtent + p[2]) * MaxExtent + p[3]

\* a valid pixel of a dataset: its value is not the dataset's nodata
Valid(ds, p) == ds.nodata = <<>> \/ ds.data[p] # ds.nodata[1]

\* variant: the rows of the dataset are written bottom-up
PasteFlipped(dest, ds, dst_w, dst_n, res, nodataval) ==
    LET roff == (dst_n - ds.top) \div res
        coff == (ds.left - dst_w) \div res
    IN [p \in DOMAIN dest |->
          LET q == <<p[1], ds.height + 1 - (p[2] - roff), p[3] - coff>>
          IN IF /\ q[2] \in 1..ds.height
                /\ q[3] \in 1..ds.width
                /\ dest[p] = nodataval
                /\ Valid(ds, q)
             THEN ds.data[q]
             ELSE dest[p]]

\* rasterio.merge.merge, the copy of one dataset into the mosaic with the
\* default method "first": a pixel is written where the mosaic still
\* holds nodataval and the dataset's pixel is valid
Paste(dest, ds, dst_w, dst_n, res, nodataval) ==
    LET roff == (dst_n - ds.top) \div res
        coff == (ds.left - dst_w) \div res
    IN [p \in DOMAIN dest |->
          LET q == <<p[1], p[2] - roff, p[3] - coff>>
          IN IF /\ q[2] \in 1..ds.height
                /\ q[3] \in 1..ds.width
                /\ dest[p] = nodataval
                /\ Valid(ds, q)
             THEN ds.data[q]
             ELSE dest[p]]

RECURSIVE PasteAll(_, _, _, _, _, _, _)
PasteAll(dest, datasets, i, dst_w, dst_n, res, nodataval) ==
    IF i > Len(datasets) THEN dest
    ELSE PasteAll(Paste(dest, datasets[i], dst_w, dst_n, res, nodataval),
                  datasets, i + 1, dst_w, dst_n, res, nodataval)

\* rasterio.merge.merge(srcs): the mosaic and its transform.  The extent
\* is the union of the bounds, the resolution, band count, data type and
\* nodata value are the first dataset's.
merge(datasets) ==
    LET first == datasets[1]
        res == first.res
        dst_w == Min({datasets[i].left : i \in DOMAIN datasets})
        dst_s == Min({Bottom(datasets[i]) : i \in DOMAIN datasets})
        dst_e == Max({Right(datasets[i]) : i \in DOMAIN datasets})
        dst_n == Max({datasets[i].top : i \in DOMAIN datasets})
        output_width == (dst_e - dst_w) \div res
        output_height == (dst_n - dst_s) \div res
        nodataval == IF first.nodata = <<>> THEN 0 ELSE first.nodata[1]
        dest == [p \in Pixels(first.count, output_height, output_width) |-> nodataval]
    IN [data |-> PasteAll(dest, datasets, 1, dst_w, dst_n, res, nodataval),
        shape |-> <<first.count, output_height, output_width>>,
        dtype |-> first.dtype,
        out_trans |-> [a |-> res, c |-> dst_w, e |-> 0 - res, f |-> dst_n]]

\* merge raises when a later dataset lacks a band of the first
Mergeable(datasets) == \A i \in DOMAIN datasets : datasets[i].count >= datasets[1].count

(* the input files of a run *)

\* the extents along one axis within MaxExtent pixels of the grid:
\* <<offset, length>>
Spans == {sp \in (0..(MaxExtent - 1)) \X (1..MaxExtent) : sp[1] + sp[2] <= MaxExtent}

\* the kinds of run, <<bands of the first tile, variant>>
Configs ==
    {<<1, "plain">>, <<1, "nodata">>, <<2, "hole">>, <<1, "mixed">>, <<2, "fewer bands">>}

\* tile i of n of a run: only the last of several tiles of a "mixed" run
\* differs from the first in data type, CRS, compression and band count
Tile(i, n, xs, ys, bands, variant) ==
    LET other == variant = "mixed" /\ i = n /\ n > 1
        fewer == variant = "fewer bands" /\ i = n /\ n > 1 /\ bands > 1
        nbands == IF other THEN bands + 1 ELSE IF fewer THEN bands - 1 ELSE bands
        nodata == IF variant \in {"nodata", "hole"} THEN <<0>> ELSE <<>>
    IN [left |-> xs[1] * Resolution,
        top |-> (MaxExtent - ys[1]) * Resolution,
        res |-> Resolution,
        width |-> xs[2], height |-> ys[2], count |-> nbands,
        dtype |-> IF other THEN "float32" ELSE "uint8",
        crs |-> IF other THEN "EPSG:3857" ELSE "EPSG:4326",
        compress |-> IF other THEN "none" ELSE "lzw",
        nodata |-> nodata,
        data |-> [p \in Pixels(nbands, ys[2], xs[2]) |->
                     IF variant = "hole" /\ i = 1 /\ p[2] = 1 /\ p[3] = 1
                     THEN 0 ELSE PixelValue(i, p)]]

NoTiles == <<>>

\* the state before line 94
RasterStart(tiles) ==
    /\ rin = tiles
    /\ rpc = IF tiles = <<>> THEN "idle" ELSE "open"
    /\ rsrcs = <<>>
    /\ rmerged = <<>>
    /\ rprofile = <<>>
    /\ rdst = <<>>

\* line 94: srcs = [rasterio.open(file) for file in files]
RasterOpen ==
    /\ UNCHANGED nonRaster
    /\ rpc = "open"
    /\ rsrcs' = rin
    /\ rpc' = "merge"
    /\ UNCHANGED <<rin, rmerged, rprofile, rdst>>

\* line 95: merged, out_trans = merge(srcs)
RasterMerge ==
    /\ UNCHANGED nonRaster
    /\ rpc = "merge"
    /\ IF Mergeable(rsrcs)
       THEN rmerged' = <<merge(rsrcs)>> /\ rpc' = "profile"
       ELSE rmerged' = rmerged /\ rpc' = "raised"
    /\ UNCHANGED <<rin, rsrcs, rprofile, rdst>>

\* variant: height and width are taken from the wrong axes
RasterProfileSwapped ==
    /\ UNCHANGED nonRaster
    /\ rpc = "profile"
    /\ rprofile' = <<[Profile(rsrcs[1]) EXCEPT !.height = rmerged[1].shape[3],
                                               !.width = rmerged[1].shape[2],
                                               !.transform = rmerged[1].out_trans]>>
    /\ rpc' = "write"
    /\ UNCHANGED <<rin, rsrcs, rmerged, rdst>>

\* variant: the profile of the last dataset is the base
RasterProfileOfLast ==
    /\ UNCHANGED nonRaster
    /\ rpc = "profile"
    /\ rprofile' = <<[Profile(rsrcs[Len(rsrcs)]) EXCEPT !.height = rmerged[1].shape[2],
                                                        !.width = rmerged[1].shape[3],
                                                        !.transform = rmerged[1].out_trans]>>
    /\ rpc' = "write"
    /\ UNCHANGED <<rin, rsrcs, rmerged, rdst>>

\* lines 97-104: the first profile, updated with the mosaic's height
\* (merged.shape[1]), width (merged.shape[2]) and transform
RasterProfile ==
    /\ UNCHANGED nonRaster
    /\ rpc = "profile"
    /\ rprofile' = <<[Profile(rsrcs[1]) EXCEPT !.height = rmerged[1].shape[2],
                                               !.width = rmerged[1].shape[3],
                                               !.transform = rmerged[1].out_trans]>>
    /\ rpc' = "write"
    /\ UNCHANGED <<rin, rsrcs, rmerged, rdst>>

\* lines 107-108: the output file is created with the profile and the
\* mosaic is written into it; a mosaic of another shape is rejected
RasterWrite ==
    /\ UNCHANGED nonRaster
    /\ rpc = "write"
    /\ IF rmerged[1].shape = <<rprofile[1].count, rprofile[1].height, rprofile[1].width>>
       THEN rdst' = <<[profile |-> rprofile[1], data |-> rmerged[1].data]>>
            /\ rpc' = "written"
       ELSE rdst' = rdst /\ rpc' = "raised"
    /\ UNCHANGED <<rin, rsrcs, rmerged, rprofile>>

RasterNext ==
    \/ RasterOpen
    \/ RasterMerge
    \/ RasterProfile
    \/ RasterWrite

-----------------------------------------------------------------------------
(* earthengine.py: EarthEngine.__init__                                    *)
(*                                                                         *)
(* A string is a sequence of pieces of text, so that lower() and the       *)
(* substring test of lines 33-34 and 44 are computed: "project" is         *)
(* <<"project">> and "not registered" is <<"not", " ", "registered">>.     *)
(* An optional value is <<>> (None) or <<v>>.                              *)

\* variant: the case is kept
LowerKeepsCase(piece) == piece

\* str.lower() of one piece of text
Lower(piece) ==
    CASE piece = "Project" -> "project"
      [] piece = "PROJECT" -> "project"
      [] piece = "Not" -> "not"
      [] piece = "Registered" -> "registered"
      [] piece = "Earth" -> "earth"
      [] piece = "Engine" -> "engine"
      [] piece = "ID" -> "id"
      [] piece = "Please" -> "please"
      [] OTHER -> piece

\* str(e).lower()
StrLower(text) == [i \in DOMAIN text |-> Lower(text[i])]

\* pattern in text
Contains(text, pattern) ==
    \E i \in 1..(Len(text) - Len(pattern) + 1) :
        SubSeq(text, i, i + Len(pattern) - 1) = pattern

\* lines 32-35 and 44: the message names a project or a registration
NeedsProject(e) ==
    \/ Contains(StrLower(e.msg), <<"project">>)
    \/ Contains(StrLower(e.msg), <<"not", " ", "registered">>)

\* except Exception: every error but the BaseException-only ones
IsException(e) == e.class # "KeyboardInterrupt"

\* lines 36-41, the beginning of the message
ProjectIdMsg ==
    <<"Earth", " ", "Engine", " ", "requires", " ", "a", " ", "project", " ", "ID">>

ValueErrorFrom(e) == [class |-> "ValueError", msg |-> ProjectIdMsg, cause |-> <<e>>]

\* the messages ee.Initialize and ee.Authenticate fail with
Messages ==
    {<<"Please", " ", "authorize", " ", "access">>,
     <<"token", " ", "expired">>,
     <<"not", " ", "yet", " ", "registered">>,
     <<"no", " ", "project", " ", "found">>,
     <<"PROJECT", " ", "required">>,
     <<"project", "s", " ", "unavailable">>,
     <<"Not", " ", "Registered">>}

Failures ==
    {[class |-> c, msg |-> m, cause |-> <<>>] :
        c \in {"EEException", "KeyboardInterrupt"}, m \in Messages}

\* the result of a call: <<>> when it returns, <<e>> when it raises e
Results == {<<>>} \cup {<<e>> : e \in Failures}

\* project: None, the empty string or a project id
Projects == {<<>>, <<"">>, <<"my-project">>}

\* if project:
Truthy(project) == project # <<>> /\ project[1] # ""

\* the keyword arguments of ee.Initialize at lines 25-30 and 48-51
InitializeArgs(project) == IF Truthy(project) THEN project ELSE <<>>

NoACall == [project |-> <<>>, authenticate |-> FALSE, made |-> FALSE]

\* the state before a construction
AuthStart ==
    /\ apc = "idle"
    /\ acall = NoACall
    /\ alog = <<>>
    /\ aexc = <<>>

\* line 11 and 22: the constructor is called
Construct ==
    /\ UNCHANGED nonAuth
    /\ apc = "idle"
    /\ \E project \in Projects, authenticate \in BOOLEAN :
          /\ acall' = [project |-> project, authenticate |-> authenticate, made |-> TRUE]
          /\ apc' = IF authenticate THEN "init1" ELSE "done"
    /\ UNCHANGED <<alog, aexc>>

\* lines 25-30: ee.Initialize(project=project) or ee.Initialize()
Initialize1 ==
    /\ UNCHANGED nonAuth
    /\ apc = "init1"
    /\ \E result \in Results :
          /\ alog' = Append(alog, [op |-> "Initialize",
                                   args |-> InitializeArgs(acall.project),
                                   result |-> result])
          /\ IF result = <<>>
             THEN apc' = "done" /\ UNCHANGED aexc
             ELSE /\ aexc' = result
                  /\ apc' = IF Truthy(acall.project) THEN "outer" ELSE "inner"
    /\ UNCHANGED acall

\* lines 31-42: the handler of the default initialization
InnerExcept ==
    /\ UNCHANGED nonAuth
    /\ apc = "inner"
    /\ aexc' = IF IsException(aexc[1]) /\ NeedsProject(aexc[1])
               THEN <<ValueErrorFrom(aexc[1])>>
               ELSE aexc
    /\ apc' = "outer"
    /\ UNCHANGED <<acall, alog>>

\* lines 43-46: the outer handler
OuterExcept ==
    /\ UNCHANGED nonAuth
    /\ apc = "outer"
    /\ IF IsException(aexc[1]) /\ ~NeedsProject(aexc[1])
       THEN apc' = "authenticate" /\ aexc' = <<>>
       ELSE apc' = "raised" /\ UNCHANGED aexc
    /\ UNCHANGED <<acall, alog>>

\* line 47: ee.Authenticate()
Authenticate ==
    /\ UNCHANGED nonAuth
    /\ apc = "authenticate"
    /\ \E result \in Results :
          /\ alog' = Append(alog, [op |-> "Authenticate", args |-> <<>>,
                                   result |-> result])
          /\ IF result = <<>>
             THEN apc' = "init2" /\ UNCHANGED aexc
             ELSE apc' = "raised" /\ aexc' = result
    /\ UNCHANGED acall

\* lines 48-51: the second ee.Initialize
Initialize2 ==
    /\ UNCHANGED nonAuth
    /\ apc = "init2"
    /\ \E result \in Results :
          /\ alog' = Append(alog, [op |-> "Initialize",
                                   args |-> InitializeArgs(acall.project),
                                   result |-> result])
          /\ IF result = <<>>
             THEN apc' = "done" /\ UNCHANGED aexc
             ELSE apc' = "raised" /\ aexc' = result
    /\ UNCHANGED acall

AuthNext ==
    \/ Construct
    \/ Initialize1
    \/ InnerExcept
    \/ OuterExcept
    \/ Authenticate
    \/ Initialize2

-----------------------------------------------------------------------------
(* Specifications *)

\* the fixed file system under which the downloader is explored
OneFs == InitFs(<<"d">>, "dir", TRUE, "tile", FALSE, FALSE)

MergeInit ==
    \E n \in DirNames, kind \in {"dir", "other"}, a \in BOOLEAN,
       b \in {"absent", "tile", "dir"}, c \in BOOLEAN, s \in BOOLEAN :
          /\ MergeStart(InitFs(n, kind, a, b, c, s))
          /\ DownloadStart
          /\ CodecStart(NoInput)
          /\ RasterStart(NoTiles)
          /\ AuthStart

DownloadInit ==
    /\ MergeStart(OneFs)
    /\ DownloadStart
    /\ CodecStart(NoInput)
    /\ RasterStart(NoTiles)
    /\ AuthStart

CodecInit ==
    \E c \in CodecInputs :
        /\ MergeStart(OneFs)
        /\ DownloadStart
        /\ CodecStart(c)
        /\ RasterStart(NoTiles)
        /\ AuthStart

\* the runs of lines 94-108 over 1..MaxTiles tiles
RasterInit ==
    \E n \in 1..MaxTiles, cfg \in Configs :
        \E xs \in [1..n -> Spans], ys \in [1..n -> Spans] :
            /\ MergeStart(OneFs)
            /\ DownloadStart
            /\ CodecStart(NoInput)
            /\ RasterStart([i \in 1..n |-> Tile(i, n, xs[i], ys[i], cfg[1], cfg[2])])
            /\ AuthStart

AuthInit ==
    /\ MergeStart(OneFs)
    /\ DownloadStart
    /\ CodecStart(NoInput)
    /\ RasterStart(NoTiles)
    /\ AuthStart

MergeSpec == MergeInit /\ [][MergeNext]_vars

DownloadSpec == DownloadInit /\ [][DownloadNext]_vars

CodecSpec == CodecInit /\ [][CodecNext]_vars

RasterSpec == RasterInit /\ [][RasterNext]_vars

AuthSpec == AuthInit /\ [][AuthNext]_vars

-----------------------------------------------------------------------------
(* Properties of merge_tif_files and merge_tif_directory (MergeSpec) *)

Inputs == Range(call.files)
Ended == pc \in {"done", "raised"}
ValidationMsgs == {DirMsg, AllMsg, NoFilesMsg}

\* a regular file whose name ends in ".tif"
RegularTif(f, p) == p \in DOMAIN f /\ f[p] # "dir" /\ MatchesTif(p[Len(p)])

\* everything but the output path is as it was when the call was made
OnlyOutputTouched ==
    /\ DOMAIN fs \ {call.output_path} = DOMAIN fs0 \ {call.output_path}
    /\ \A p \in DOMAIN fs0 \ {call.output_path} : fs[p] = fs0[p]

\* C1: with delete_after, no input is unlinked before the write of the
\* merged output has completed; when opening the output or writing fails the
\* error propagates and every input file is still there.
C1_DeleteOnlyAfterWrite ==
    /\ k > 1 => wrote
    /\ pc = "unlink" => wrote
    /\ (pc # "idle" /\ ~wrote) => \A p \in Inputs : Exists(fs0, p) => Exists(fs, p)
    /\ err \in {"create", "write"} =>
          /\ pc = "raised"
          /\ k = 1
          /\ \A p \in Inputs : Exists(fs, p)

C1_Witness ==
    /\ pc = "raised" /\ err = "write"
    /\ call.delete_after
    /\ Len(call.files) = 2
    /\ \A p \in Inputs : Exists(fs, p)

\* C2: a merge_tif_directory call on a path that is not a directory and a
\* merge_tif_files call whose list holds a path that is not an existing
\* regular .tif file raise a validation error before any input is opened,
\* any output is created and anything is deleted.
C2_FailFast ==
    /\ (call.op = "directory" /\ ~IsDir(fs0, call.input_dir)) =>
          pc = "raised" /\ err = DirMsg /\ srcs = <<>> /\ fs = fs0 /\ ~wrote
    /\ (call.op # "none" /\ \E p \in Inputs : ~RegularTif(fs0, p)) =>
          pc = "raised" /\ err = AllMsg /\ srcs = <<>> /\ fs = fs0 /\ ~wrote

C2_Witness ==
    /\ pc = "raised" /\ err = AllMsg
    /\ call.op = "files"
    /\ Len(call.files) = 2
    /\ RegularTif(fs0, call.files[1])
    /\ ~RegularTif(fs0, call.files[2])

\* C3: when a merge_tif_files call has ended, by returning or by raising,
\* every input dataset it opened has been closed.
C3_HandlesReleased ==
    Ended => \A i \in DOMAIN srcs : ~srcs[i].open

\* C4 as claimed: whenever the call raises, the file system is as it was
\* before the call.
C4_AllOrNothing ==
    pc = "raised" => fs = fs0

\* C4 amended: a raise at validation, while opening the inputs, computing
\* the mosaic or opening the output leaves the file system as it was; a
\* raise while writing leaves every input in place and changes nothing but
\* the output path, where a partial file is left; a raise while deleting
\* comes after the output was written and leaves exactly the inputs unlinked
\* so far removed.
C4_RaiseEffects ==
    pc = "raised" =>
        /\ err \in ValidationMsgs \cup {"open", "merge", "create"} => fs = fs0
        /\ err = "write" =>
              /\ OnlyOutputTouched
              /\ \A p \in Inputs : Exists(fs, p)
              /\ Exists(fs, call.output_path) /\ fs[call.output_path] = "partial"
        /\ err = "unlink" =>
              /\ wrote
              /\ DOMAIN fs0 \ DOMAIN fs = {call.files[i] : i \in 1..(k - 1)}
              /\ \A p \in DOMAIN fs \ {call.output_path} : p \in DOMAIN fs0 /\ fs[p] = fs0[p]

C4_Witness ==
    /\ pc = "raised" /\ err = "write"
    /\ fs # fs0
    /\ ~Exists(fs0, call.output_path)

\* C5: after a merge call with delete_after=True has returned, the merged
\* output exists at output_path, wherever output_path lies.
C5_OutputSurvives ==
    (pc = "done" /\ call.delete_after) =>
        Exists(fs, call.output_path) /\ fs[call.output_path] = "merged"

\* C6: merge_tif_directory with delete_after=True deletes nothing but the
\* .tif tiles it found directly inside the directory and the directory
\* itself; every other entry, an output placed inside it included, stays.
C6_OnlyTilesAndDirRemoved ==
    (pc = "done" /\ call.op = "directory" /\ call.delete_after) =>
        \A p \in DOMAIN fs0 \cup {call.output_path} :
            p \notin Inputs \cup {call.input_dir} => Exists(fs, p)

\* C7 as claimed: an empty list, and a directory with no regular .tif file
\* directly inside it, raise "No files to merge." and change nothing.
C7_NoTifFileRaisesNoFiles ==
    /\ (call.op = "files" /\ call.files = <<>>) =>
          pc = "raised" /\ err = NoFilesMsg /\ fs = fs0
    /\ (/\ call.op = "directory"
        /\ IsDir(fs0, call.input_dir)
        /\ ~\E p \in DOMAIN fs0 : Parent(p) = call.input_dir /\ RegularTif(fs0, p)) =>
          pc = "raised" /\ err = NoFilesMsg /\ fs = fs0

\* C7 amended: an empty list, and a directory with no entry named *.tif
\* directly inside it, raise "No files to merge.", create no output and,
\* even with delete_after=True, leave the directory in place.
C7_NoTifEntryRaisesNoFiles ==
    /\ (call.op = "files" /\ call.files = <<>>) =>
          pc = "raised" /\ err = NoFilesMsg /\ fs = fs0
    /\ (/\ call.op = "directory"
        /\ IsDir(fs0, call.input_dir)
        /\ ~\E p \in DOMAIN fs0 : Parent(p) = call.input_dir /\ MatchesTif(p[Len(p)])) =>
          pc = "raised" /\ err = NoFilesMsg /\ fs = fs0

C7_Witness ==
    /\ pc = "raised" /\ err = NoFilesMsg
    /\ call.op = "directory"
    /\ call.delete_after
    /\ IsDir(fs, call.input_dir)
    /\ \E p \in DOMAIN fs : Parent(p) = call.input_dir

\* C8: without an output path, merge_tif_directory writes to the sibling
\* path made of the directory's full name followed by ".tif".
C8_DefaultIsNamePlusTif ==
    (call.op = "directory" /\ ~call.output_given /\ IsDir(fs0, call.input_dir)) =>
        call.output_path =
            Parent(call.input_dir) \o <<call.input_dir[Len(call.input_dir)] \o TifSuffix>>

-----------------------------------------------------------------------------
(* Properties of _download_image (DownloadSpec) *)

\* C9: an invalid dtype is rejected before any remote request is issued and
\* before the output directory is created.
C9_InvalidDtypeBeforeIO ==
    derr = InvalidDtypeMsg => queries = 0 /\ ~dirMade

\* C10: an export that fails with an error is recorded as a failure record
\* and the loop goes on, so a returned report holds one record per image of
\* the collection, in collection order, each a success record with its
\* output path or a failure record with an error message.
C10_BatchReport ==
    /\ \A i \in DOMAIN outcomes :
          outcomes[i] = "exception" =>
              /\ i <= Len(info)
              /\ info[i] = [success |-> FALSE, error |-> "export failed"]
              /\ derr # "exception"
    /\ (dpc = "returned" /\ ~dcall.output_dir_none) =>
          /\ Len(info) = count
          /\ Len(outcomes) = count
          /\ \A i \in 1..count :
                \/ outcomes[i] = "ok"
                   /\ info[i] = [success |-> TRUE, output_path |-> i - 1]
                \/ outcomes[i] = "exception"
                   /\ info[i] = [success |-> FALSE, error |-> "export failed"]

C10_Witness ==
    /\ dpc = "returned"
    /\ count = 3
    /\ outcomes = <<"exception", "ok", "exception">>
    /\ Len(info) = 3

-----------------------------------------------------------------------------
(* Claims on the quantization codec, checked under CodecSpec *)

\* 2 / 127.5 as a numerator over Den: 4 / 255 = 4 * 255 / 255^2
ErrorBound == 4 * TwiceScale

\* C11: for every x in [-1, 1], dequantize_numpy(quantize_numpy(x)) differs
\* from x by at most 2 / 127.5.
C11_RoundTripError ==
    (cin.kind = "float" /\ Abs(cin.x) <= Den /\ npq # <<>> /\ npd # <<>>) =>
        Abs(npd[1] - cin.x) <= ErrorBound

\* the widest bucket: an x in [-1, 1] whose round trip is off by more than
\* 0.99 of the bound
C11_Witness ==
    /\ cin.kind = "float"
    /\ Abs(cin.x) <= Den
    /\ npq # <<>>
    /\ npd # <<>>
    /\ 100 * Abs(npd[1] - cin.x) > 99 * ErrorBound

\* C12: for every byte b in 1..255, quantize_numpy(dequantize_numpy(b)) is
\* within 1 of b, and is b when the floating-point results are exact.
C12_ByteRoundTrip ==
    (cin.kind = "byte" /\ cin.b >= 1 /\ npd # <<>> /\ npq # <<>>) =>
        /\ Abs(npq[1] - cin.b) <= 1
        /\ cin.eps = 0 => npq[1] = cin.b

\* a byte that comes back one lower because the rounding crossed a boundary
C12_Witness ==
    /\ cin.kind = "byte"
    /\ cin.b >= 1
    /\ npd # <<>>
    /\ npq = <<cin.b - 1>>

\* C13: quantize_numpy is monotonic non-decreasing: x <= x2 gives
\* quantize_numpy(x) <= quantize_numpy(x2), inside and outside [-1, 1].
C13_Monotonic ==
    (cin.kind = "float" /\ npq # <<>> /\ npq2 # <<>>) => npq[1] <= npq2[1]

\* two neighbours on the grid, on either side of a boundary between bytes
C13_Witness ==
    /\ cin.kind = "float"
    /\ cin.x < cin.x2
    /\ npq # <<>>
    /\ npq2 # <<>>
    /\ npq[1] < npq2[1]

\* C14: for every finite x quantize_numpy returns a byte in 1..255, 255 for
\* every x >= 1 and 1 for every x <= -1.
C14_RangeAndClamp ==
    (cin.kind = "float" /\ npq # <<>>) =>
        /\ npq[1] \in 1..255
        /\ cin.x >= Den => npq[1] = 255
        /\ cin.x <= 0 - Den => npq[1] = 1

\* an input below -1, clamped to the byte 1
C14_Witness ==
    /\ cin.kind = "float"
    /\ cin.x < 0 - Den
    /\ npq = <<1>>

\* C15: quantize_numpy(0) is 128.
C15_ZeroIsMidpoint ==
    (cin.kind = "float" /\ cin.x = 0 /\ npq # <<>>) => npq[1] = 128

C15_Witness ==
    /\ cin.kind = "float"
    /\ cin.x = 0
    /\ Len(npq) = 1

\* C16: quantize_numpy and quantize_ee yield the same byte for every input
\* value, and dequantize_numpy and dequantize_ee the same value for every
\* byte.
C16_PathsAgree ==
    /\ (cin.kind = "float" /\ npq # <<>> /\ eeq # <<>>) => npq = eeq
    /\ (cin.kind = "byte" /\ npd # <<>> /\ eed # <<>>) => npd = eed
    /\ (npq # <<>> /\ eeq # <<>> /\ npd # <<>> /\ eed # <<>>) =>
          npq = eeq /\ npd = eed

\* both paths have quantized a negative float off the grid of boundaries
\* and dequantized the byte
C16_Witness ==
    /\ cin.kind = "float"
    /\ cin.x < 0
    /\ cin.x > 0 - Den
    /\ npq # <<>>
    /\ eeq = npq
    /\ npd # <<>>
    /\ eed = npd
    /\ npd[1] # cin.x

-----------------------------------------------------------------------------
(* Claims on the output raster of the merge, checked under RasterSpec *)

\* the bounding box of the union of the extents of the input tiles
UnionWest == Min({rin[i].left : i \in DOMAIN rin})
UnionEast == Max({rin[i].left + rin[i].width * rin[i].res : i \in DOMAIN rin})
UnionSouth == Min({rin[i].top - rin[i].height * rin[i].res : i \in DOMAIN rin})
UnionNorth == Max({rin[i].top : i \in DOMAIN rin})

Disjoint(a, b) ==
    \/ a.left + a.width * a.res <= b.left
    \/ b.left + b.width * b.res <= a.left
    \/ a.top - a.height * a.res >= b.top
    \/ b.top - b.height * b.res >= a.top

CommonResolution == \A i \in DOMAIN rin : rin[i].res = rin[1].res

AtUnionBox(profile) ==
    /\ profile.width * rin[1].res = UnionEast - UnionWest
    /\ profile.height * rin[1].res = UnionNorth - UnionSouth
    /\ profile.transform =
          [a |-> rin[1].res, c |-> UnionWest, e |-> 0 - rin[1].res, f |-> UnionNorth]

\* C17: merging N >= 1 tiles at a common resolution produces an output whose
\* pixel width and height are those of the bounding box of the union of the
\* input extents at that resolution, with the transform at that box.
C17_OutputExtent ==
    CommonResolution =>
        /\ rprofile # <<>> => AtUnionBox(rprofile[1])
        /\ rdst # <<>> =>
              /\ AtUnionBox(rdst[1].profile)
              /\ DOMAIN rdst[1].data =
                    (1..rin[1].count) \X (1..rdst[1].profile.height)
                        \X (1..rdst[1].profile.width)

\* two disjoint tiles whose union box is wider and higher than either
C17_Witness ==
    /\ Len(rin) = 2
    /\ Disjoint(rin[1], rin[2])
    /\ rpc = "written"
    /\ rdst # <<>>
    /\ \A i \in 1..2 :
          /\ rdst[1].profile.width > rin[i].width
          /\ rdst[1].profile.height > rin[i].height
    /\ rdst[1].profile.transform # Profile(rin[1]).transform

Overridden == {"height", "width", "transform"}

\* C18: the output file's profile is the first input's profile with only
\* height, width and transform overridden; band count, data type and CRS
\* are the first input's, and those of every input when the inputs agree.
C18_OutputProfile ==
    /\ rprofile # <<>> =>
          /\ DOMAIN rprofile[1] = DOMAIN Profile(rin[1])
          /\ \A f \in DOMAIN rprofile[1] \ Overridden :
                rprofile[1][f] = Profile(rin[1])[f]
    /\ rdst # <<>> =>
          /\ rdst[1].profile = rprofile[1]
          /\ rdst[1].profile.count = rin[1].count
          /\ rdst[1].profile.dtype = rin[1].dtype
          /\ rdst[1].profile.crs = rin[1].crs
          /\ \A p \in DOMAIN rdst[1].data : p[1] \in 1..rin[1].count
          /\ \A i \in DOMAIN rin :
                (rin[i].count = rin[1].count /\ rin[i].dtype = rin[1].dtype) =>
                    /\ rdst[1].profile.count = rin[i].count
                    /\ rdst[1].profile.dtype = rin[i].dtype

\* the last tile differs from the first in data type, CRS and band count,
\* and the written profile is neither tile's
C18_Witness ==
    /\ Len(rin) = 2
    /\ rin[2].dtype # rin[1].dtype
    /\ rin[2].crs # rin[1].crs
    /\ rin[2].count # rin[1].count
    /\ rdst # <<>>
    /\ rdst[1].profile # Profile(rin[1])
    /\ rdst[1].profile.dtype = rin[1].dtype

\* C19: merging exactly one tile yields an output equal to the input: same
\* dimensions, transform, band count, data type and pixel values.
C19_SingleTileIdentity ==
    (Len(rin) = 1 /\ rdst # <<>>) =>
        /\ rdst[1].profile.width = rin[1].width
        /\ rdst[1].profile.height = rin[1].height
        /\ rdst[1].profile.transform =
              [a |-> rin[1].res, c |-> rin[1].left, e |-> 0 - rin[1].res, f |-> rin[1].top]
        /\ rdst[1].profile.count = rin[1].count
        /\ rdst[1].profile.dtype = rin[1].dtype
        /\ rdst[1].data = rin[1].data

\* one tile of two bands with a nodata pixel, away from the origin
C19_Witness ==
    /\ Len(rin) = 1
    /\ rin[1].count = 2
    /\ rin[1].height > 1
    /\ rin[1].left > 0
    /\ rin[1].nodata # <<>>
    /\ \E p \in DOMAIN rin[1].data : rin[1].data[p] = rin[1].nodata[1]
    /\ rpc = "written"
    /\ rdst # <<>>

-----------------------------------------------------------------------------
(* Claim on the order of the steps of merge_tif_files, checked under MergeSpec *)

AllOpened == Len(srcs) = Len(call.files) /\ \A i \in DOMAIN srcs : srcs[i].open
AllClosed == Len(srcs) = Len(call.files) /\ \A i \in DOMAIN srcs : ~srcs[i].open

\* C20: in every step of merge_tif_files, a dataset is opened only before
\* the mosaic, the mosaic is computed once, with every input open, the
\* output is written once, after the mosaic and with every input open, a
\* dataset is closed only after the write, and an input is unlinked only
\* after the write and with every dataset closed.
C20_StepOrder ==
    [][/\ Len(srcs') > Len(srcs) =>
             /\ pc = "open"
             /\ ~wrote
             /\ k = 1
             /\ \A i \in DOMAIN srcs : srcs[i].open
       /\ pc' = "merge" => pc = "open"
       /\ pc' = "create" => pc = "merge" /\ AllOpened /\ ~wrote
       /\ pc' = "write" => pc = "create" /\ AllOpened /\ ~wrote
       /\ wrote' # wrote => pc = "write" /\ wrote' /\ AllOpened /\ k = 1
       /\ (\E i \in DOMAIN srcs : srcs[i].open /\ ~srcs'[i].open) =>
             /\ wrote
             /\ k = 1
             /\ Len(srcs) = Len(call.files)
       /\ k' # k =>
             /\ k' = k + 1
             /\ wrote
             /\ AllClosed
             /\ \A i \in DOMAIN srcs' : ~srcs'[i].open
       /\ \A f \in Range(call.files) :
             (Exists(fs, f) /\ ~Exists(fs', f) /\ pc # "rmtree") =>
                 \A i \in DOMAIN srcs : srcs[i].path = f => ~srcs[i].open
      ]_vars

\* a successful call on two inputs has deleted both after closing them
C20_Witness ==
    /\ Len(call.files) = 2
    /\ call.delete_after
    /\ err = ""
    /\ wrote
    /\ AllClosed
    /\ k = 3
    /\ \A i \in 1..2 : ~Exists(fs, call.files[i])

-----------------------------------------------------------------------------
(* Claim on the EarthEngine constructor, checked under AuthSpec *)

AEnded == apc \in {"done", "raised"}
InitializeCalls == {i \in DOMAIN alog : alog[i].op = "Initialize"}
AuthenticateCalls == {i \in DOMAIN alog : alog[i].op = "Authenticate"}

\* the messages that contain "project" or "not registered" in any case
ProjectMessages ==
    {<<"no", " ", "project", " ", "found">>,
     <<"PROJECT", " ", "required">>,
     <<"project", "s", " ", "unavailable">>,
     <<"Not", " ", "Registered">>}

FirstFailed == alog # <<>> /\ alog[1].result # <<>>
FirstNamesProject == FirstFailed /\ alog[1].result[1].msg \in ProjectMessages

\* what holds of every construction, whatever the failure
C21_Common ==
    /\ ~acall.authenticate => alog = <<>>
    /\ acall.authenticate =>
          /\ alog # <<>>
          /\ alog[1].op = "Initialize"
          /\ alog[1].args \in {<<>>, acall.project}
          /\ alog[1].result = <<>> => Len(alog) = 1 /\ apc = "done"
    /\ Cardinality(InitializeCalls) <= 2
    /\ Cardinality(AuthenticateCalls) <= 1

\* C21, as stated: with authenticate=False no call is made; with
\* authenticate=True Initialize is tried once; if it fails with a message
\* containing "project" or "not registered" the error propagates and
\* Authenticate is never called; on any other failure Authenticate is called
\* exactly once followed by exactly one more Initialize with the same
\* project argument; at most two Initialize calls and one Authenticate call.
C21_AuthProtocol ==
    AEnded =>
        /\ C21_Common
        /\ FirstNamesProject =>
              apc = "raised" /\ Len(alog) = 1
        /\ (FirstFailed /\ ~FirstNamesProject) =>
              /\ Len(alog) = 3
              /\ alog[2].op = "Authenticate"
              /\ alog[3].op = "Initialize"
              /\ alog[3].args = alog[1].args

\* C21, amended: a first failure that is not an Exception, or whose message
\* contains "project" or "not registered", ends the construction with an
\* error and without Authenticate (the failure itself, or a ValueError
\* caused by it when no project was given); any other first failure is
\* followed by exactly one Authenticate, and, when Authenticate returns, by
\* exactly one more Initialize with the same project argument; an error of
\* Authenticate propagates with no further Initialize.
C21_AuthProtocolAmended ==
    AEnded =>
        /\ C21_Common
        /\ (FirstFailed /\ alog[1].result[1].class = "KeyboardInterrupt") =>
              /\ apc = "raised"
              /\ Len(alog) = 1
              /\ aexc = alog[1].result
        /\ (FirstNamesProject /\ alog[1].result[1].class # "KeyboardInterrupt") =>
              /\ apc = "raised"
              /\ Len(alog) = 1
              /\ IF alog[1].args # <<>>
                 THEN aexc = alog[1].result
                 ELSE /\ aexc[1].class = "ValueError"
                      /\ aexc[1].cause = alog[1].result
        /\ (FirstFailed /\ ~FirstNamesProject
                /\ alog[1].result[1].class # "KeyboardInterrupt") =>
              /\ Len(alog) >= 2
              /\ alog[2].op = "Authenticate"
              /\ alog[2].result # <<>> =>
                    /\ Len(alog) = 2
                    /\ apc = "raised"
                    /\ aexc = alog[2].result
              /\ alog[2].result = <<>> =>
                    /\ Len(alog) = 3
                    /\ alog[3].op = "Initialize"
                    /\ alog[3].args = alog[1].args
                    /\ apc = "done" <=> alog[3].result = <<>>

\* Initialize failed without naming a project and Authenticate raised
C21_Witness ==
    /\ apc = "raised"
    /\ acall.project = <<"my-project">>
    /\ Len(alog) = 2
    /\ alog[1].op = "Initialize"
    /\ alog[1].args = <<"my-project">>
    /\ alog[1].result # <<>>
    /\ alog[1].result[1].msg = <<"token", " ", "expired">>
    /\ alog[2].op = "Authenticate"
    /\ alog[2].result # <<>>

====
